---- MODULE Spec2Model ----
(***************************************************************************)
(* A model of src/components/InputArea.tsx: the InputArea component (drop  *)
(* target, hidden file picker, text field and submit button) and the       *)
(* CyclingText placeholder it renders.                                     *)
(*                                                                         *)
(* Strings whose contents the code inspects (the prompt, which is trimmed, *)
(* and a file's media type, which is matched against a prefix) are         *)
(* sequences of one-character strings, so that trim() and startsWith() are *)
(* computed and not assumed.                                               *)
(***************************************************************************)
EXTENDS Integers, Sequences, FiniteSets, TLC

VARIABLES
    \* InputArea: React state (lines 45-46) and props (lines 8-12, 44)
    isDragging,     \* useState(false), line 45
    prompt,         \* useState(""), line 46
    isGenerating,   \* prop, owned by the caller
    disabled,       \* prop, owned by the caller, default false
    \* the browser's file chooser of the hidden <input type="file"> (160-166)
    pickerOpen,
    \* observation of the most recently handled DOM event
    lastEvent,      \* its kind
    evParity,       \* flips at every handled event
    lastFile,       \* the first file of the list it delivered, if any
    lastExtra,      \* what the list held after its first file
    calls,          \* the onGenerate invocations that event made, in order
    alerts,         \* the number of alert() notices that event raised
    raised,         \* isGenerating has been true since the latest call
    \* CyclingText: React state (lines 23-24) and its timers (lines 26-35)
    mounted,        \* the component instance is mounted
    index,          \* useState(0), line 23
    fade,           \* useState(true), line 24
    interval,       \* ms until the setInterval callback is due, or NoTimer
    timeouts,       \* pending setTimeout callbacks: [rem, owner]
    sinceFlip,      \* ms since fade last changed (or since mount)
    sinceMount,     \* ms since mount, while the first phrase is shown
    firstPhrase,    \* no index advance since mount
    lateFired       \* a timer callback ran for an unmounted instance

inputVars == <<isDragging, prompt, isGenerating, disabled, pickerOpen,
               lastEvent, evParity, lastFile, lastExtra, calls, alerts, raised>>
cycleVars == <<mounted, index, fade, interval, timeouts, sinceFlip,
               sinceMount, firstPhrase, lateFired>>
vars == <<isDragging, prompt, isGenerating, disabled, pickerOpen,
          lastEvent, evParity, lastFile, lastExtra, calls, alerts, raised,
          mounted, index, fade, interval, timeouts, sinceFlip,
          sinceMount, firstPhrase, lateFired>>

----------------------------------------------------------------------------
(* Bounds of the model *)

\* longest prompt text considered
MaxLen == 2
\* most files in one drop payload or picker selection
MaxFiles == 2

----------------------------------------------------------------------------
(* Strings *)

Chars == {"a", " "}

RECURSIVE SeqsUpTo(_, _)
SeqsUpTo(S, n) ==
    IF n = 0 THEN {<<>>}
    ELSE LET shorter == SeqsUpTo(S, n - 1)
         IN  shorter \cup {Append(s, x) : s \in {t \in shorter : Len(t) = n - 1}, x \in S}

Texts == SeqsUpTo(Chars, MaxLen)

IsWhiteSpace(c) == c = " "

RECURSIVE trimStart(_)
trimStart(s) ==
    IF s # <<>> /\ IsWhiteSpace(Head(s)) THEN trimStart(Tail(s)) ELSE s

RECURSIVE trimEnd(_)
trimEnd(s) ==
    IF s # <<>> /\ IsWhiteSpace(s[Len(s)])
    THEN trimEnd(SubSeq(s, 1, Len(s) - 1))
    ELSE s

\* String.prototype.trim, as used at lines 92 and 186
trim(s) == trimEnd(trimStart(s))

\* a string in a boolean context: the empty string is falsy
Truthy(s) == s # <<>>

\* String.prototype.startsWith, as used at lines 49 and 71
startsWith(s, p) == Len(s) >= Len(p) /\ SubSeq(s, 1, Len(p)) = p

----------------------------------------------------------------------------
(* Files and media types *)

ImagePrefix == <<"i", "m", "a", "g", "e", "/">>
ApplicationPdf ==
    <<"a", "p", "p", "l", "i", "c", "a", "t", "i", "o", "n", "/", "p", "d", "f">>

ImagePng == ImagePrefix \o <<"p", "n", "g">>
TextPlain == <<"t", "e", "x", "t", "/", "p", "l", "a", "i", "n">>
ApplicationPdfx == ApplicationPdf \o <<"x">>
EmptyType == <<>>

FileTypes == {ImagePng, ApplicationPdf, TextPlain, ApplicationPdfx, EmptyType}

\* a File, of which the component reads the declared media type only
Files == [type : FileTypes]

\* the optional `file` argument of onGenerate left out
NoFile == [undefined |-> TRUE]

\* a FileList as the events deliver it (e.target.files may be null)
FileLists ==
    {[isNull |-> TRUE, items |-> <<>>]} \cup
    {[isNull |-> FALSE, items |-> s] : s \in SeqsUpTo(Files, MaxFiles)}

\* `files && files[0]`, lines 57 and 66
HasFirstFile(files) == ~files.isNull /\ Len(files.items) >= 1

FirstFile(files) == files.items[1]

----------------------------------------------------------------------------
(* The calls a handler makes *)

Call(p, file) == [prompt |-> p, file |-> file]

\* onGenerate(prompt, file), the caller's callback (line 9)
onGenerate(p, file) == calls' = <<Call(p, file)>>

NoOnGenerate == calls' = <<>>

\* window.alert("Please upload an image or PDF."), lines 52 and 74
alert == alerts' = 1

NoAlert == alerts' = 0

\* the file an event hands to its handler
Delivered(files) == IF HasFirstFile(files) THEN FirstFile(files) ELSE NoFile

\* what a list holds after its first file: nothing, files of unsupported
\* types only, or some file of a supported type
Extra(files) ==
    IF files.isNull \/ Len(files.items) < 2 THEN "none"
    ELSE IF \E i \in 2..Len(files.items) :
                files.items[i].type \in {ImagePng, ApplicationPdf}
         THEN "supported"
         ELSE "unsupported"

\* bookkeeping of the handled event
Handled(kind, file, extra) ==
    /\ lastEvent' = kind
    /\ evParity' = 1 - evParity
    /\ lastFile' = file
    /\ lastExtra' = extra
    /\ raised' = (IF calls' # <<>> THEN isGenerating ELSE raised)

----------------------------------------------------------------------------
(* InputArea: the handlers, lines 48-95 *)

\* handleFileAccepts with the PDF type matched as a prefix
handleFileAcceptsPdfPrefix(type) ==
    startsWith(type, ImagePrefix) \/ startsWith(type, ApplicationPdf)

\* the type test of handleFile, line 49
handleFileAccepts(type) ==
    startsWith(type, ImagePrefix) \/ type = ApplicationPdf

\* handleDropAccepts with the PDF alternative left out
handleDropAcceptsImageOnly(type) ==
    startsWith(type, ImagePrefix)

\* the type test of handleDrop, line 71
handleDropAccepts(type) ==
    startsWith(type, ImagePrefix) \/ type = ApplicationPdf

\* handleFile relying on the input's accept attribute: no type test
handleFileUnchecked(file) ==
    onGenerate(prompt, file) /\ NoAlert

\* lines 48-54
handleFile(file) ==
    IF handleFileAccepts(file.type)
    THEN (onGenerate(prompt, file) /\ NoAlert)
    ELSE (NoOnGenerate /\ alert)

\* handleFileChange raising the notice for a selection without a file
handleFileChangeAlertsEmpty(files) ==
    /\ IF HasFirstFile(files)
       THEN handleFile(FirstFile(files))
       ELSE (NoOnGenerate /\ alert)
    /\ UNCHANGED <<isDragging, prompt>>

\* lines 56-60
handleFileChange(files) ==
    /\ IF HasFirstFile(files)
       THEN handleFile(FirstFile(files))
       ELSE (NoOnGenerate /\ NoAlert)
    /\ UNCHANGED <<isDragging, prompt>>

\* the first file of a supported type in a list, NoFile if there is none
FirstAccepted(files) ==
    IF \E i \in 1..Len(files.items) : handleDropAccepts(files.items[i].type)
    THEN files.items[CHOOSE i \in 1..Len(files.items) :
                        /\ handleDropAccepts(files.items[i].type)
                        /\ \A j \in 1..(i - 1) :
                              ~handleDropAccepts(files.items[j].type)]
    ELSE NoFile

\* handleDrop searching the payload for a file it accepts
handleDropFirstAccepted(files) ==
    /\ isDragging' = FALSE
    /\ IF disabled \/ isGenerating
       THEN (NoOnGenerate /\ NoAlert)
       ELSE IF HasFirstFile(files)
            THEN IF FirstAccepted(files) # NoFile
                 THEN (onGenerate(prompt, FirstAccepted(files)) /\ NoAlert)
                 ELSE (NoOnGenerate /\ alert)
            ELSE (NoOnGenerate /\ NoAlert)
    /\ UNCHANGED prompt

\* handleDrop with setIsDragging(false) after the early return
handleDropGateFirst(files) ==
    /\ IF disabled \/ isGenerating
       THEN (NoOnGenerate /\ NoAlert /\ UNCHANGED isDragging)
       ELSE /\ isDragging' = FALSE
            /\ IF HasFirstFile(files)
               THEN IF handleDropAccepts(FirstFile(files).type)
                    THEN (onGenerate(prompt, FirstFile(files)) /\ NoAlert)
                    ELSE (NoOnGenerate /\ alert)
               ELSE (NoOnGenerate /\ NoAlert)
    /\ UNCHANGED prompt

\* handleDrop with setIsDragging(false) in the accepting branch only
handleDropResetOnAccept(files) ==
    /\ IF disabled \/ isGenerating
       THEN (NoOnGenerate /\ NoAlert /\ UNCHANGED isDragging)
       ELSE IF HasFirstFile(files)
            THEN IF handleDropAccepts(FirstFile(files).type)
                 THEN (onGenerate(prompt, FirstFile(files)) /\ NoAlert
                       /\ isDragging' = FALSE)
                 ELSE (NoOnGenerate /\ alert /\ UNCHANGED isDragging)
            ELSE (NoOnGenerate /\ NoAlert /\ UNCHANGED isDragging)
    /\ UNCHANGED prompt

\* lines 62-77
handleDrop(files) ==
    /\ isDragging' = FALSE
    /\ IF disabled \/ isGenerating
       THEN (NoOnGenerate /\ NoAlert)
       ELSE IF HasFirstFile(files)
            THEN IF handleDropAccepts(FirstFile(files).type)
                 THEN (onGenerate(prompt, FirstFile(files)) /\ NoAlert)
                 ELSE (NoOnGenerate /\ alert)
            ELSE (NoOnGenerate /\ NoAlert)
    /\ UNCHANGED prompt

\* handleDragOver without the test of the flags
handleDragOverUngated ==
    /\ isDragging' = TRUE
    /\ NoOnGenerate /\ NoAlert
    /\ UNCHANGED prompt

\* lines 79-84
handleDragOver ==
    /\ isDragging' = (IF ~disabled /\ ~isGenerating THEN TRUE ELSE isDragging)
    /\ NoOnGenerate /\ NoAlert
    /\ UNCHANGED prompt

\* lines 86-89
handleDragLeave ==
    /\ isDragging' = FALSE
    /\ NoOnGenerate /\ NoAlert
    /\ UNCHANGED prompt

\* handleTextSubmit testing the text without trimming it
handleTextSubmitNoTrim ==
    /\ IF Truthy(prompt) /\ ~isGenerating /\ ~disabled
       THEN onGenerate(prompt, NoFile)
       ELSE NoOnGenerate
    /\ NoAlert
    /\ UNCHANGED <<isDragging, prompt>>

\* handleTextSubmit emptying the text field after a submission
handleTextSubmitClears ==
    /\ IF Truthy(trim(prompt)) /\ ~isGenerating /\ ~disabled
       THEN (onGenerate(prompt, NoFile) /\ prompt' = <<>>)
       ELSE (NoOnGenerate /\ UNCHANGED prompt)
    /\ NoAlert
    /\ UNCHANGED isDragging

\* lines 91-95
handleTextSubmit ==
    /\ IF Truthy(trim(prompt)) /\ ~isGenerating /\ ~disabled
       THEN onGenerate(prompt, NoFile)
       ELSE NoOnGenerate
    /\ NoAlert
    /\ UNCHANGED <<isDragging, prompt>>

\* the text field's onChange, line 178
setPrompt(value) ==
    /\ prompt' = value
    /\ NoOnGenerate /\ NoAlert
    /\ UNCHANGED isDragging

\* the text field's onKeyDown, line 179
onKeyDown(key) ==
    IF key = "Enter"
    THEN handleTextSubmit
    ELSE (NoOnGenerate /\ NoAlert /\ UNCHANGED <<isDragging, prompt>>)

\* the `disabled` attribute of the hidden file input, line 165
fileInputDisabled == isGenerating \/ disabled

\* the attribute computed from the untrimmed text
submitDisabledNoTrim == ~Truthy(prompt) \/ isGenerating \/ disabled

\* the `disabled` attribute of the submit button, line 186
submitDisabled == ~Truthy(trim(prompt)) \/ isGenerating \/ disabled

\* what handleDrop does with the first file of a list (lines 65-76), as the
\* calls and the number of notices it leaves
DropResult(file) ==
    IF disabled \/ isGenerating THEN <<(<<>>), 0>>
    ELSE IF file = NoFile THEN <<(<<>>), 0>>
    ELSE IF handleDropAccepts(file.type) THEN <<(<<Call(prompt, file)>>), 0>>
    ELSE <<(<<>>), 1>>

----------------------------------------------------------------------------
(* InputArea: the events the component handles *)

Keys == {"Enter", "a"}

EventKinds == {"none", "dragover", "dragleave", "drop", "change", "input",
               "keydown", "click"}

\* onDragOver of the label, line 119
DragOver ==
    /\ handleDragOver
    /\ Handled("dragover", NoFile, "none")
    /\ UNCHANGED <<isGenerating, disabled, pickerOpen>>

\* onDragLeave of the label, line 120
DragLeave ==
    /\ handleDragLeave
    /\ Handled("dragleave", NoFile, "none")
    /\ UNCHANGED <<isGenerating, disabled, pickerOpen>>

\* onDrop of the label, line 118
Drop(files) ==
    /\ handleDrop(files)
    /\ Handled("drop", Delivered(files), Extra(files))
    /\ UNCHANGED <<isGenerating, disabled, pickerOpen>>

\* the user opens the file chooser: the label activates the hidden input,
\* which the browser refuses while the input is disabled (line 165)
OpenPicker ==
    /\ ~pickerOpen
    /\ ~fileInputDisabled
    /\ pickerOpen' = TRUE
    /\ UNCHANGED <<isDragging, prompt, isGenerating, disabled,
                   lastEvent, evParity, lastFile, lastExtra, calls, alerts, raised>>

\* the user dismisses the file chooser: no event reaches the component
CancelPicker ==
    /\ pickerOpen
    /\ pickerOpen' = FALSE
    /\ UNCHANGED <<isDragging, prompt, isGenerating, disabled,
                   lastEvent, evParity, lastFile, lastExtra, calls, alerts, raised>>

\* the user confirms a selection in the open chooser: onChange, line 164
FileChange(files) ==
    /\ pickerOpen
    /\ pickerOpen' = FALSE
    /\ handleFileChange(files)
    /\ Handled("change", Delivered(files), Extra(files))
    /\ UNCHANGED <<isGenerating, disabled>>

\* an input event of the text field, line 178
TextInput(value) ==
    /\ setPrompt(value)
    /\ Handled("input", NoFile, "none")
    /\ UNCHANGED <<isGenerating, disabled, pickerOpen>>

\* a key pressed in the text field, line 179
KeyDown(key) ==
    /\ onKeyDown(key)
    /\ Handled("keydown", NoFile, "none")
    /\ UNCHANGED <<isGenerating, disabled, pickerOpen>>

\* the submit button activated, line 185
Click ==
    /\ handleTextSubmit
    /\ Handled("click", NoFile, "none")
    /\ UNCHANGED <<isGenerating, disabled, pickerOpen>>

\* the caller renders the component with other props (lines 8-12, 44)
SetProps(g, d) ==
    /\ <<g, d>> # <<isGenerating, disabled>>
    /\ isGenerating' = g
    /\ disabled' = d
    /\ raised' = (raised \/ g)
    /\ UNCHANGED <<isDragging, prompt, pickerOpen,
                   lastEvent, evParity, lastFile, lastExtra, calls, alerts>>

InitInput ==
    /\ isDragging = FALSE
    /\ prompt = <<>>
    /\ isGenerating \in BOOLEAN
    /\ disabled \in BOOLEAN
    /\ pickerOpen = FALSE
    /\ lastEvent = "none"
    /\ evParity = 0
    /\ lastFile = NoFile
    /\ lastExtra = "none"
    /\ calls = <<>>
    /\ alerts = 0
    /\ raised = isGenerating

----------------------------------------------------------------------------
(* CyclingText, lines 14-42 *)

\* words.length, lines 15-22
WordsLength == 6

\* the setInterval period in ms, line 33
DwellMs == 3000

\* the setTimeout delay in ms, line 32
FadeMs == 500

\* no interval is armed
NoTimer == -1

\* the amounts by which time is observed to pass
Steps == {250, 500}

\* the updater of setIndex without the wrap
NextIndexNoWrap(prev) == IF prev + 1 >= WordsLength THEN prev ELSE prev + 1

\* the updater of setIndex, line 30
NextIndex(prev) == (prev + 1) % WordsLength

\* the time left on every armed timer
Remaining ==
    (IF interval = NoTimer THEN {} ELSE {interval}) \cup {t.rem : t \in timeouts}

\* the state of a fresh instance (lines 23-24) and the effect run (26-33)
MountedFresh ==
    /\ mounted' = TRUE
    /\ index' = 0
    /\ fade' = TRUE
    /\ interval' = DwellMs
    /\ sinceFlip' = 0
    /\ sinceMount' = 0
    /\ firstPhrase' = TRUE

\* React mounts a new instance of the component
Mount ==
    /\ ~mounted
    /\ MountedFresh
    /\ UNCHANGED <<timeouts, lateFired>>

\* React unmounts the instance: the effect's cleanup runs, line 34
Unmount ==
    /\ mounted
    /\ mounted' = FALSE
    /\ interval' = NoTimer
    /\ timeouts' = {[rem |-> t.rem, owner |-> "unmounted"] : t \in timeouts}
    /\ UNCHANGED <<index, fade, sinceFlip, sinceMount, firstPhrase, lateFired>>

\* time passes, no further than the next timer that is due
Advance(d) ==
    /\ Remaining # {}
    /\ \A r \in Remaining : d <= r
    /\ interval' = (IF interval = NoTimer THEN NoTimer ELSE interval - d)
    /\ timeouts' = {[rem |-> t.rem - d, owner |-> t.owner] : t \in timeouts}
    /\ sinceFlip' = (IF mounted THEN sinceFlip + d ELSE sinceFlip)
    /\ sinceMount' = (IF mounted /\ firstPhrase THEN sinceMount + d
                                               ELSE sinceMount)
    /\ UNCHANGED <<mounted, index, fade, firstPhrase, lateFired>>

\* the setInterval callback with the period as the delay of the timeout
IntervalFireLongFade ==
    /\ interval = 0
    /\ fade' = FALSE
    /\ timeouts' = timeouts \cup {[rem |-> 2 * FadeMs, owner |-> "mounted"]}
    /\ interval' = DwellMs
    /\ sinceFlip' = 0
    /\ UNCHANGED <<mounted, index, sinceMount, firstPhrase, lateFired>>

\* the setInterval callback, lines 27-33
IntervalFire ==
    /\ interval = 0
    /\ fade' = FALSE
    /\ timeouts' = timeouts \cup {[rem |-> FadeMs, owner |-> "mounted"]}
    /\ interval' = DwellMs
    /\ sinceFlip' = 0
    /\ UNCHANGED <<mounted, index, sinceMount, firstPhrase, lateFired>>

\* the setTimeout callback updating the state shown now, whichever instance
\* armed it
TimeoutFireShared(t) ==
    /\ t \in timeouts
    /\ t.rem = 0
    /\ timeouts' = timeouts \ {t}
    /\ index' = NextIndex(index)
    /\ fade' = TRUE
    /\ sinceFlip' = 0
    /\ firstPhrase' = FALSE
    /\ lateFired' = (lateFired \/ t.owner # "mounted")
    /\ UNCHANGED <<mounted, interval, sinceMount>>

\* the setTimeout callback without setFade(true)
TimeoutFireNoFadeIn(t) ==
    /\ t \in timeouts
    /\ t.rem = 0
    /\ timeouts' = timeouts \ {t}
    /\ IF t.owner = "mounted"
       THEN /\ index' = NextIndex(index)
            /\ firstPhrase' = FALSE
            /\ UNCHANGED <<fade, sinceFlip, lateFired>>
       ELSE /\ lateFired' = TRUE
            /\ UNCHANGED <<index, fade, sinceFlip, firstPhrase>>
    /\ UNCHANGED <<mounted, interval, sinceMount>>

\* the setTimeout callback, lines 29-32; React drops a state update of an
\* instance that is no longer mounted
TimeoutFire(t) ==
    /\ t \in timeouts
    /\ t.rem = 0
    /\ timeouts' = timeouts \ {t}
    /\ IF t.owner = "mounted"
       THEN /\ index' = NextIndex(index)
            /\ fade' = TRUE
            /\ sinceFlip' = 0
            /\ firstPhrase' = FALSE
            /\ UNCHANGED lateFired
       ELSE /\ lateFired' = TRUE
            /\ UNCHANGED <<index, fade, sinceFlip, firstPhrase>>
    /\ UNCHANGED <<mounted, interval, sinceMount>>

InitCycle ==
    /\ mounted = TRUE
    /\ index = 0
    /\ fade = TRUE
    /\ interval = DwellMs
    /\ timeouts = {}
    /\ sinceFlip = 0
    /\ sinceMount = 0
    /\ firstPhrase = TRUE
    /\ lateFired = FALSE

----------------------------------------------------------------------------
(* Specifications *)

Init == InitInput /\ InitCycle

\* the InputArea under every order of its events, the placeholder at rest
Next ==
    \/ DragOver /\ UNCHANGED cycleVars
    \/ DragLeave /\ UNCHANGED cycleVars
    \/ \E files \in FileLists : Drop(files) /\ UNCHANGED cycleVars
    \/ OpenPicker /\ UNCHANGED cycleVars
    \/ CancelPicker /\ UNCHANGED cycleVars
    \/ \E files \in FileLists : FileChange(files) /\ UNCHANGED cycleVars
    \/ \E value \in Texts : TextInput(value) /\ UNCHANGED cycleVars
    \/ \E key \in Keys : KeyDown(key) /\ UNCHANGED cycleVars
    \/ Click /\ UNCHANGED cycleVars
    \/ \E g \in BOOLEAN, d \in BOOLEAN : SetProps(g, d) /\ UNCHANGED cycleVars

Spec == Init /\ [][Next]_vars

\* the placeholder under every schedule of its timers, the InputArea at rest
NextCycle ==
    \/ Mount /\ UNCHANGED inputVars
    \/ Unmount /\ UNCHANGED inputVars
    \/ \E d \in Steps : Advance(d) /\ UNCHANGED inputVars
    \/ IntervalFire /\ UNCHANGED inputVars
    \/ \E t \in timeouts : TimeoutFire(t) /\ UNCHANGED inputVars

SpecCycle == Init /\ [][NextCycle]_vars

\* time passes and a due timer callback runs
SpecCycleFair ==
    /\ Init
    /\ [][NextCycle]_vars
    /\ WF_vars(\E d \in Steps : Advance(d) /\ UNCHANGED inputVars)
    /\ WF_vars(IntervalFire /\ UNCHANGED inputVars)
    /\ WF_vars(\E t \in timeouts : TimeoutFire(t) /\ UNCHANGED inputVars)

----------------------------------------------------------------------------
(* Vocabulary of the properties *)

\* a step in which the component handles a DOM event
EventStep == evParity' # evParity

\* the flags that gate the interaction
Busy == isGenerating \/ disabled

\* a media type that starts with image/ or is exactly application/pdf
SupportedType(type) ==
    \/ (Len(type) >= 6 /\ \A i \in 1..6 : type[i] = ImagePrefix[i])
    \/ type = ApplicationPdf

\* the text is not empty after trimming: it holds a character that is not
\* white space
NonBlank(s) == \E i \in 1..Len(s) : ~IsWhiteSpace(s[i])

\* a step in which a drop or a picker selection is handled
DropStep == EventStep /\ lastEvent' = "drop"
PickStep == EventStep /\ lastEvent' = "change"

\* ... that delivered a file of a supported, or of an unsupported, type
Supported(file) == file # NoFile /\ SupportedType(file.type)
Unsupported(file) == file # NoFile /\ ~SupportedType(file.type)

----------------------------------------------------------------------------
(* C1 *)

\* C1: while generating or disabled is true, no handled event (drop, file
\* change, Enter key, submit click) makes an onGenerate call.
C1_NoCallWhileBusy ==
    [][(Busy /\ EventStep) => calls' = <<>>]_vars

\* the gate of handleDrop and of handleTextSubmit does hold: no drop, key or
\* click handled while busy makes a call
C1_GatedHandlersSilent ==
    [][(Busy /\ EventStep /\ lastEvent' # "change") => calls' = <<>>]_vars

----------------------------------------------------------------------------
(* C2 *)

\* C2: when neither generating nor disabled is true, a drop or a picker
\* selection whose first file has a supported media type makes exactly one
\* onGenerate call, with that file and the prompt text of that moment.
C2_AcceptedFileSubmitsOnce ==
    [][((DropStep \/ PickStep) /\ ~Busy /\ Supported(lastFile'))
          => calls' = <<Call(prompt, lastFile')>>]_vars

\* a PDF was submitted together with a white-space-only prompt
C2_Witness ==
    /\ lastEvent \in {"drop", "change"}
    /\ calls = <<Call(<<" ">>, [type |-> ApplicationPdf])>>

----------------------------------------------------------------------------
(* C3 *)

\* C3 as stated: every dropped or picked file of an unsupported media type
\* makes no onGenerate call and raises exactly one rejection notice.
C3_UnsupportedAlwaysNoticed ==
    [][((DropStep \/ PickStep) /\ Unsupported(lastFile'))
          => (calls' = <<>> /\ alerts' = 1)]_vars

\* C3 amended: a picked file, or a file dropped while neither generating nor
\* disabled is true, of an unsupported media type makes no onGenerate call
\* and raises exactly one notice; a drop handled while generating or
\* disabled makes no call and raises no notice.
C3_UnsupportedNoticedUnlessGatedDrop ==
    [][Unsupported(lastFile')
          => /\ PickStep => (calls' = <<>> /\ alerts' = 1)
             /\ (DropStep /\ ~Busy) => (calls' = <<>> /\ alerts' = 1)
             /\ (DropStep /\ Busy) => (calls' = <<>> /\ alerts' = 0)]_vars

\* a drop was rejected with a notice
C3_Witness ==
    lastEvent = "drop" /\ alerts = 1 /\ calls = <<>>

----------------------------------------------------------------------------
(* C4 *)

\* C4: a text-submit attempt (Enter in the text field, or the submit button)
\* makes exactly one onGenerate call, with the text as it is and no file, if
\* the trimmed text is non-empty and neither flag is true, and no call
\* otherwise.
C4_TextSubmitIff ==
    [][(EventStep /\ (Click \/ KeyDown("Enter")))
          => calls' = (IF NonBlank(prompt) /\ ~isGenerating /\ ~disabled
                       THEN <<Call(prompt, NoFile)>>
                       ELSE <<>>)]_vars

\* a padded text was submitted, untrimmed, by a key or a click
C4_Witness ==
    /\ lastEvent \in {"keydown", "click"}
    /\ calls = <<Call(<<" ", "a">>, NoFile)>>

----------------------------------------------------------------------------
(* C5 *)

\* C5: every onGenerate call carries a text that is non-empty after trimming
\* or a file of a supported media type.
C5_EveryCallHasContent ==
    \A i \in 1..Len(calls) :
        IF calls[i].file = NoFile
        THEN NonBlank(calls[i].prompt)
        ELSE SupportedType(calls[i].file.type)

\* a call was made with a file and an empty text
C5_Witness ==
    /\ Len(calls) = 1
    /\ calls[1].file # NoFile
    /\ calls[1].prompt = <<>>

----------------------------------------------------------------------------
(* C6 *)

\* C6 as stated: a rejected file, dropped or picked, leaves isDragging and
\* prompt as they were before the attempt.
C6_RejectionChangesNothing ==
    [][(EventStep /\ alerts' = 1)
          => (isDragging' = isDragging /\ prompt' = prompt)]_vars

\* C6 amended: a rejected file leaves prompt as it was; a rejected picked
\* file leaves isDragging as it was too, and a rejected dropped file leaves
\* isDragging false, as every drop does.
C6_RejectionKeepsPrompt ==
    [][(EventStep /\ alerts' = 1)
          => /\ prompt' = prompt
             /\ lastEvent' = "change" => isDragging' = isDragging
             /\ lastEvent' = "drop" => isDragging' = FALSE]_vars

\* a file was rejected while a text was held
C6_Witness ==
    lastEvent = "change" /\ alerts = 1 /\ prompt = <<"a", " ">>

----------------------------------------------------------------------------
(* C7 *)

\* C7: isDragging is false initially and right after every drag-leave and
\* every drop, whichever branch the drop takes; it becomes true in a
\* drag-over step only.
C7_DragStateReset ==
    /\ isDragging = FALSE
    /\ [][/\ (EventStep /\ lastEvent' \in {"dragleave", "drop"})
             => isDragging' = FALSE
          /\ (isDragging' /\ ~isDragging) => DragOver]_vars

\* isDragging is true with events other than drag-leave and drop handled
\* since the drag-over
C7_Witness ==
    isDragging /\ lastEvent = "keydown"

----------------------------------------------------------------------------
(* C8 *)

\* C8: after the component unmounts, at any moment, no timer of the
\* placeholder remains pending and no timer callback runs any more.
C8_TornDownOnUnmount ==
    /\ ~mounted => interval = NoTimer
    /\ \A t \in timeouts : t.owner = "mounted"
    /\ ~lateFired

----------------------------------------------------------------------------
(* C9 *)

\* C9: the placeholder starts at index 0; while mounted the index changes
\* only to its successor in the list, index 5 being followed by index 0 (a
\* new instance starts again at 0); and as long as the component stays
\* mounted and the timers fire, every phrase is shown again and again.
C9_CycleInOrderForever ==
    /\ index = 0
    /\ [][index' # index
            => \/ mounted /\ mounted' /\ index < 5 /\ index' = index + 1
               \/ mounted /\ mounted' /\ index = 5 /\ index' = 0
               \/ ~mounted /\ mounted' /\ index' = 0]_vars
    /\ \A i \in 0..5 : []<>(~mounted \/ index = i)

\* the last phrase was followed by the first one
C9_Witness ==
    mounted /\ index = 0 /\ ~firstPhrase

----------------------------------------------------------------------------
(* C10 *)

\* C10 as stated: every phrase, the first and every later one, is fully
\* visible for 3000 ms before its fade-out begins; fade is then false for
\* exactly 500 ms, and at that expiry the index advances and fade is true.
C10_FullDwellEveryPhrase ==
    [][/\ (mounted /\ fade /\ ~fade') => sinceFlip = 3000
       /\ (mounted /\ ~fade) => sinceFlip <= 500
       /\ (mounted /\ mounted' /\ ~fade /\ fade')
             => (sinceFlip = 500 /\ index' = (index + 1) % 6)
       /\ (mounted /\ mounted' /\ index' # index)
             => (sinceFlip = 500 /\ ~fade /\ fade')]_vars

\* C10 amended: the first phrase after mount is fully visible for 3000 ms
\* and every later phrase for 2500 ms (the 3000 ms period less the 500 ms
\* fade) before its fade-out begins; fade is then false for exactly 500 ms,
\* and at that expiry the index advances and fade is true.
C10_DwellThenFade ==
    [][/\ (mounted /\ fade /\ ~fade')
             => sinceFlip = (IF firstPhrase THEN 3000 ELSE 2500)
       /\ (mounted /\ ~fade) => sinceFlip <= 500
       /\ (mounted /\ mounted' /\ ~fade /\ fade')
             => (sinceFlip = 500 /\ index' = (index + 1) % 6)
       /\ (mounted /\ mounted' /\ index' # index)
             => (sinceFlip = 500 /\ ~fade /\ fade')]_vars

\* a later phrase is half way through its fade-out
C10_Witness ==
    mounted /\ ~firstPhrase /\ ~fade /\ sinceFlip = 250

----------------------------------------------------------------------------
(* C11 *)

\* C11: prompt changes in text-input steps only: no submission, no rejected
\* file and no drag event changes it, and it keeps its value through every
\* step that makes an onGenerate call.
C11_PromptOwnedByTextInput ==
    [][/\ prompt' # prompt => (EventStep /\ lastEvent' = "input")
       /\ (EventStep /\ calls' # <<>>) => prompt' = prompt]_vars

\* a text was submitted by a click and is still held
C11_Witness ==
    /\ lastEvent = "click"
    /\ calls = <<Call(<<"a", "a">>, NoFile)>>
    /\ prompt = <<"a", "a">>

----------------------------------------------------------------------------
(* C12 *)

\* C12: a drag-over handled while disabled or generating is true leaves
\* isDragging as it was, and a drag-leave leaves isDragging false in every
\* state, whatever the flags are.
C12_DragOverGatedLeaveNot ==
    [][/\ (EventStep /\ lastEvent' = "dragover" /\ Busy)
             => isDragging' = isDragging
       /\ (EventStep /\ lastEvent' = "dragleave") => isDragging' = FALSE]_vars

\* a drag-leave was handled while the component was busy
C12_Witness ==
    lastEvent = "dragleave" /\ Busy /\ ~isDragging /\ pickerOpen

----------------------------------------------------------------------------
(* C13 *)

\* the drop handler does leave what DropResult computes
C13_DropLeavesDropResult ==
    [][DropStep => <<calls', alerts'>> = DropResult(lastFile')]_vars

\* C13: for every file, text and value of the flags, a file-picker change
\* event has the outcome (onGenerate calls, notice or not) of a drop of that
\* file in the same state.
C13_PickLikeDrop ==
    [][PickStep => <<calls', alerts'>> = DropResult(lastFile')]_vars

\* the two paths do agree while neither flag is true
C13_PickLikeDropUnlessBusy ==
    [][(PickStep /\ ~Busy) => <<calls', alerts'>> = DropResult(lastFile')]_vars

----------------------------------------------------------------------------
(* C14 *)

\* C14: the submit button is disabled exactly when the trimmed text is
\* empty or generating or disabled is true, and activating it makes one
\* onGenerate call when it is enabled and none when it is disabled.
C14_SubmitControlGate ==
    [][/\ submitDisabled <=> (~NonBlank(prompt) \/ isGenerating \/ disabled)
       /\ (EventStep /\ lastEvent' = "click")
             => Len(calls') = (IF submitDisabled THEN 0 ELSE 1)]_vars

\* the button was activated over a white-space-only text and made no call
C14_Witness ==
    /\ lastEvent = "click"
    /\ calls = <<>>
    /\ prompt = <<" ", " ">>
    /\ ~Busy

----------------------------------------------------------------------------
(* C15 *)

\* the pending setTimeout callbacks armed by the mounted instance, and those
\* left behind by an instance since unmounted
OwnTimeouts == {t \in timeouts : t.owner = "mounted"}
StaleTimeouts == {t \in timeouts : t.owner = "unmounted"}

\* C15: a re-mount, at any point of the old instance's cycle, starts the new
\* instance at index 0 with fade true; its index advances only when one of
\* its own timeouts runs, the first time 3500 ms after the re-mount, and a
\* timeout left by the old instance changes neither its index nor its fade.
C15_RemountRestartsCycle ==
    [][/\ (~mounted /\ mounted') => (index' = 0 /\ fade' = TRUE)
       /\ (mounted /\ mounted' /\ index' # index)
             => \E t \in OwnTimeouts : t.rem = 0 /\ t \notin timeouts'
       /\ (mounted /\ mounted' /\ firstPhrase /\ index' # index)
             => sinceMount = 3500
       /\ (StaleTimeouts' # StaleTimeouts /\ mounted /\ mounted')
             => (index' = index /\ fade' = fade)]_vars

\* a timeout of the old instance ran 250 ms after the re-mount, and the new
\* instance still shows its first phrase
C15_Witness ==
    mounted /\ lateFired /\ timeouts = {} /\ sinceMount = 250 /\ index = 0 /\ fade

----------------------------------------------------------------------------
(* C16 *)

\* C16: once a user action has made an onGenerate call, a further submit
\* action (Enter, click, drop, pick) handled before the caller has raised
\* generating makes no second call.
C16_NoDuplicateSubmission ==
    [][(/\ EventStep
        /\ calls # <<>>
        /\ ~raised
        /\ lastEvent' \in {"keydown", "click", "drop", "change"})
          => calls' = <<>>]_vars

----------------------------------------------------------------------------
(* C17 *)

----------------------------------------------------------------------------
(* C18 *)

----------------------------------------------------------------------------
(* C19 *)

\* C19: a drop or a file-change event whose file list is empty (or null)
\* makes no onGenerate call and raises no notice; prompt is unchanged, and
\* the drop leaves isDragging false.
C19_EmptyListIgnored ==
    [][((DropStep \/ PickStep) /\ lastFile' = NoFile)
          => /\ calls' = <<>>
             /\ alerts' = 0
             /\ prompt' = prompt
             /\ DropStep => isDragging' = FALSE]_vars

\* an empty selection was confirmed in the file chooser while a text was held
C19_Witness ==
    /\ lastEvent = "change"
    /\ lastFile = NoFile
    /\ prompt = <<"a">>
    /\ alerts = 0
    /\ calls = <<>>

====
